---------------------------- MODULE Spec2Model ----------------------------
(***************************************************************************)
(* Model of src/lib/shady-render.ts (lit-html): the scoped template        *)
(* factory, the style extraction that walks a compiled template and fixes  *)
(* part indices, the style re-insertion, and the render entry point.       *)
(*                                                                         *)
(* A compiled template's content is kept as the sequence of its nodes in   *)
(* document (depth-first, pre-order) order, which is the order in which    *)
(* the TreeWalker of the source visits them; every node carries its        *)
(* identity and its parent's identity (0 is the content fragment).         *)
(***************************************************************************)
EXTENDS Integers, Sequences, FiniteSets, TLC

VARIABLES
    ShadyCSS,         \* window.ShadyCSS: [present, nativeShadow, ApplyShim]
    needsStyleFixup,  \* module constant computed once at load (line 117)
    sites,            \* the program's template literals: strings identity -> compiled shape
    templateCaches,   \* cacheKey -> (strings identity -> Template reference)
    templates,        \* heap of Template instances, indexed by reference
    shadyRenderSet,   \* scope names already processed (line 115)
    log,              \* history of hook invocations and steps, in order
    styleTemplate,    \* the side template of the last extraction
    threw,            \* whether the last operation raised
    phase,            \* position of the driver of the extraction/injection harness
    arg               \* argument of the last operation

vars == <<ShadyCSS, needsStyleFixup, sites, templateCaches, templates,
          shadyRenderSet, log, styleTemplate, threw, phase, arg>>

----------------------------------------------------------------------------
\* Bounds of the model.

MaxNodes == 3          \* nodes of a generated template content
MaxParts == 2          \* parts of a generated template
MaxRenders == 2        \* render calls in one behaviour
MaxFactoryCalls == 3   \* direct factory calls in one behaviour
MaxInjectChildren == 1 \* child nodes of a re-inserted style element

Scopes == {"a", "b"}
Types == {"html", "svg"}
StringsIds == {1, 2, 3}

----------------------------------------------------------------------------
\* Sequence helpers.

RemoveIds(s, ids) == SelectSeq(s, LAMBDA n : n.id \notin ids)

----------------------------------------------------------------------------
\* DOM: nodes in document order.

Node(i, nm, p) == [id |-> i, name |-> nm, parent |-> p]

\* Position (1-based) of the node with identity i in a node sequence, 0 if absent.
PosOf(seq, i) ==
    IF \E k \in DOMAIN seq : seq[k].id = i
    THEN CHOOSE k \in DOMAIN seq : seq[k].id = i
    ELSE 0

\* node.childNodes.length
ChildCount(seq, i) == Cardinality({k \in DOMAIN seq : seq[k].parent = i})

\* The identities of a node and all its descendants.
RECURSIVE Subtree(_, _)
Subtree(seq, S) ==
    LET S2 == S \cup {seq[k].id : k \in {j \in DOMAIN seq : seq[j].parent \in S}}
    IN IF S2 = S THEN S ELSE Subtree(seq, S2)

----------------------------------------------------------------------------
\* Dynamic values of a TemplateResult. Every value is a record of one
\* shape: tag says what it is, values holds a TemplateResult's values or an
\* array's / iterable's items.

Scalar(k) == [tag |-> k, type |-> "", strings |-> 0, values |-> <<>>]
Result(ty, s, vals) == [tag |-> "result", type |-> ty, strings |-> s, values |-> vals]
Arr(items) == [tag |-> "array", type |-> "", strings |-> 0, values |-> items]
Iter(items) == [tag |-> "iterable", type |-> "", strings |-> 0, values |-> items]

\* value instanceof TemplateResult
IsTemplateResult(v) == v.tag = "result"
\* Array.isArray(value)
IsArray(v) == v.tag = "array"
\* typeof value !== 'string'
NotString(v) == v.tag # "string"
\* value[Symbol.iterator] raises a TypeError on null and undefined
PropertyReadThrows(v) == v.tag \in {"null", "undefined"}
\* value[Symbol.iterator] is truthy
HasIterator(v) == v.tag \in {"array", "iterable"}

----------------------------------------------------------------------------
\* Maps with a growing domain (the JavaScript Map objects).

EmptyMap == <<>>
Put(f, k, v) == [x \in (DOMAIN f) \cup {k} |-> IF x = k THEN v ELSE f[x]]

\* One entry of the history.
Ev(o, c, sc, v) == [op |-> o, call |-> c, scope |-> sc, x |-> v]

\* The state a call works on: the Template heap, the caches, the side
\* template's content, the history, the number of the running call and
\* whether an error is propagating.
Heap(tpls, caches, sink, lg, c) ==
    [templates |-> tpls, templateCaches |-> caches, sink |-> sink,
     log |-> lg, call |-> c, err |-> FALSE]

Raise(h) == [h EXCEPT !.err = TRUE]

----------------------------------------------------------------------------
\* result.getTemplateElement() followed by new Template(result, element):
\* the content tree and the parts (their indices) of the call site.
NewTemplate(result) ==
    [strings |-> result.strings,
     type |-> result.type,
     content |-> sites[result.strings].content,
     parts |-> sites[result.strings].parts,
     detached |-> <<>>]

\* CacheKey without the scope name.
CacheKeyTypeOnly(ty, scopeName) == ty \o "--"

\* `${result.type}--${scopeName}`
CacheKey(ty, scopeName) == ty \o "--" \o scopeName

\* typeof window.ShadyCSS === 'object'
ShadyIsObject == ShadyCSS.present

\* shadyTemplateFactory without line 44: the compiled template is not stored.
shadyTemplateFactoryNoStore(h, scopeName, result) ==
    LET cacheKey == CacheKey(result.type, scopeName)
        h1 == IF cacheKey \in DOMAIN h.templateCaches
              THEN h
              ELSE [h EXCEPT !.templateCaches = Put(@, cacheKey, EmptyMap)]
        t == Len(h1.templates) + 1
        lg1 == IF ShadyIsObject
               THEN Append(h1.log, Ev("prepareTemplateDom", h1.call, scopeName, t))
               ELSE h1.log
    IN  [h |-> [h1 EXCEPT
                  !.log = Append(lg1, Ev("compile", h1.call, scopeName, t)),
                  !.templates = Append(@, NewTemplate(result))],
         t |-> t]

\* shadyTemplateFactory(scopeName)(result): the heap after the call and the
\* reference of the Template returned.
shadyTemplateFactory(h, scopeName, result) ==
    LET cacheKey == CacheKey(result.type, scopeName)
        h1 == IF cacheKey \in DOMAIN h.templateCaches
              THEN h
              ELSE [h EXCEPT !.templateCaches = Put(@, cacheKey, EmptyMap)]
        templateCache == h1.templateCaches[cacheKey]
    IN  IF result.strings \in DOMAIN templateCache
        THEN [h |-> h1, t |-> templateCache[result.strings]]
        ELSE LET t == Len(h1.templates) + 1
                 lg1 == IF ShadyIsObject
                        THEN Append(h1.log, Ev("prepareTemplateDom", h1.call, scopeName, t))
                        ELSE h1.log
                 lg2 == Append(lg1, Ev("compile", h1.call, scopeName, t))
             IN  [h |-> [h1 EXCEPT
                          !.log = lg2,
                          !.templates = Append(@, NewTemplate(result)),
                          !.templateCaches[cacheKey] = Put(@, result.strings, t)],
                  t |-> t]

----------------------------------------------------------------------------
\* The TreeWalker over a template's content.

\* The node sequence a node currently lives in: the content, or the removed
\* subtree it was detached with.
FragmentOf(tpl, i) ==
    IF PosOf(tpl.content, i) > 0 THEN tpl.content
    ELSE IF \E k \in DOMAIN tpl.detached : PosOf(tpl.detached[k], i) > 0
         THEN tpl.detached[CHOOSE k \in DOMAIN tpl.detached : PosOf(tpl.detached[k], i) > 0]
         ELSE <<>>

\* walker.nextNode() from currentNode cur (0: the root); 0 when there is none.
\* A current node that was detached has successors only inside its own
\* removed subtree (the browsers' TreeWalker stops where the ancestors end).
NextNode(tpl, cur) ==
    IF cur = 0
    THEN IF tpl.content = <<>> THEN 0 ELSE tpl.content[1].id
    ELSE LET f == FragmentOf(tpl, cur)
             p == PosOf(f, cur)
         IN  IF p < Len(f) THEN f[p + 1].id ELSE 0

\* const removeCount = node.childNodes.length + 1
RemoveCount(childCount) == childCount + 1

\* PartShift with the removed range taken one position too long.
PartShiftInclusive(index, partIndexValue, partDelta, disableUntil) ==
    IF index <= disableUntil THEN -1 ELSE partIndexValue + partDelta

\* lines 77-81: the new index of the part found at the current node.
PartShift(index, partIndexValue, partDelta, disableUntil) ==
    IF index < disableUntil THEN -1 ELSE partIndexValue + partDelta

\* node.cloneNode(true), as far as the side template is concerned.
Clone(t, frag, i) == [name |-> "style", from |-> t, node |-> i,
                      nchildren |-> ChildCount(frag, i)]

\* appendChild putting the clone in front of the side template's children.
AppendChildFirst(sink, clone) == <<clone>> \o sink

\* styleTemplate.content.appendChild(clone), line 73
AppendChild(sink, clone) == Append(sink, clone)

\* nodesToRemove.forEach((n) => n.parentNode!.removeChild(n)). Style
\* elements hold text only, so a queued node is attached to the content or is
\* the top of a subtree removed earlier, whose parentNode is null.
RECURSIVE RemoveQueued(_, _, _)
RemoveQueued(h, t, q) ==
    IF q = <<>> THEN h
    ELSE LET tpl == h.templates[t]
             n == Head(q)
         IN  IF PosOf(tpl.content, n) = 0
             THEN Raise(h)
             ELSE LET ids == Subtree(tpl.content, {n})
                      gone == SelectSeq(tpl.content, LAMBDA x : x.id \in ids)
                      h1 == [h EXCEPT
                               !.templates[t].content = RemoveIds(@, ids),
                               !.templates[t].detached = Append(@, gone)]
                  IN  RemoveQueued(h1, t, Tail(q))

RECURSIVE extractStylesFromTemplate(_, _, _)
RECURSIVE extractStylesFromValue(_, _, _)
RECURSIVE ExtractItems(_, _, _)
RECURSIVE WalkLoop(_, _, _)

\* The while loop of lines 66-87 and the removal of line 88. w holds the
\* locals: the heap, the template, the walker's current node, partIndex,
\* partDelta, disableUntil, index and nodesToRemove.
WalkLoop(w, scopeName, result) ==
    LET tpl == w.h.templates[w.t]
        nxt == NextNode(tpl, w.cur)
    IN  IF nxt = 0
        THEN RemoveQueued(w.h, w.t, w.nodesToRemove)
        ELSE
        LET index == w.index + 1
            frag == FragmentOf(tpl, nxt)
            node == frag[PosOf(frag, nxt)]
            isStyle == node.name = "style"
            removeCount == RemoveCount(ChildCount(frag, nxt))
            disableUntil == IF isStyle THEN index + removeCount ELSE w.disableUntil
            partDelta == IF isStyle THEN w.partDelta - removeCount ELSE w.partDelta
            h1 == IF isStyle
                  THEN [w.h EXCEPT !.sink = AppendChild(@, Clone(w.t, frag, nxt))]
                  ELSE w.h
            nodesToRemove == IF isStyle THEN Append(w.nodesToRemove, nxt)
                             ELSE w.nodesToRemove
            w1 == [w EXCEPT !.h = h1, !.cur = nxt, !.index = index,
                            !.disableUntil = disableUntil, !.partDelta = partDelta,
                            !.nodesToRemove = nodesToRemove]
            hasPart == w.partIndex < Len(tpl.parts)
        IN  IF ~(hasPart /\ tpl.parts[w.partIndex + 1] = index)
            THEN WalkLoop(w1, scopeName, result)
            ELSE
            LET newIndex == PartShift(index, tpl.parts[w.partIndex + 1],
                                      partDelta, disableUntil)
                h2 == [h1 EXCEPT !.templates[w.t].parts[w.partIndex + 1] = newIndex]
                value == IF w.partIndex < Len(result.values)
                         THEN result.values[w.partIndex + 1]
                         ELSE Scalar("undefined")
                h3 == extractStylesFromValue(h2, scopeName, value)
            IN  IF h3.err THEN h3
                ELSE WalkLoop([w1 EXCEPT !.h = h3, !.partIndex = w.partIndex + 1],
                              scopeName, result)

\* extractStylesFromTemplate(styleTemplate, templateFactory, result), with
\* templateFactory = shadyTemplateFactory(scopeName) and styleTemplate = h.sink.
extractStylesFromTemplate(h, scopeName, result) ==
    LET f == shadyTemplateFactory(h, scopeName, result)
    IN  WalkLoop([h |-> f.h, t |-> f.t, cur |-> 0, partIndex |-> 0,
                  partDelta |-> 0, disableUntil |-> 0, index |-> -1,
                  nodesToRemove |-> <<>>],
                 scopeName, result)

\* for (const item of value) extractStylesFromValue(..., item)
ExtractItems(h, scopeName, items) ==
    IF items = <<>> THEN h
    ELSE LET h1 == extractStylesFromValue(h, scopeName, Head(items))
         IN  IF h1.err THEN h1 ELSE ExtractItems(h1, scopeName, Tail(items))

\* extractStylesFromValue(styleTemplate, templateFactory, value)
extractStylesFromValue(h, scopeName, value) ==
    IF IsTemplateResult(value)
    THEN extractStylesFromTemplate(h, scopeName, value)
    ELSE IF IsArray(value)
    THEN ExtractItems(h, scopeName, value.values)
    ELSE IF ~NotString(value)
    THEN h
    ELSE IF PropertyReadThrows(value)
    THEN Raise(h)
    ELSE IF HasIterator(value)
    THEN ExtractItems(h, scopeName, value.values)
    ELSE h

----------------------------------------------------------------------------
\* AdjustIndex without counting the style element itself.
AdjustIndexChildrenOnly(nchildren) == nchildren

\* const adjustIndex = 1 + style.childNodes.length
AdjustIndex(nchildren) == 1 + nchildren

\* ShiftParts reaching the first part only.
ShiftPartsFirstOnly(parts, adjustIndex) ==
    [i \in DOMAIN parts |->
       IF i = 1 /\ parts[i] >= 0 THEN parts[i] + adjustIndex ELSE parts[i]]

\* lines 108-112
ShiftParts(parts, adjustIndex) ==
    [i \in DOMAIN parts |-> IF parts[i] >= 0 THEN parts[i] + adjustIndex ELSE parts[i]]

\* content.insertBefore(style, content.firstChild): the style element and its
\* child nodes become the first nodes of the content.
InsertFirst(tpl, nchildren) ==
    LET used == {tpl.content[k].id : k \in DOMAIN tpl.content} \cup
                UNION {{tpl.detached[d][k].id : k \in DOMAIN tpl.detached[d]} :
                         d \in DOMAIN tpl.detached}
        m == IF used = {} THEN 0 ELSE CHOOSE x \in used : \A y \in used : y <= x
    IN  <<Node(m + 1, "style", 0)>> \o
        [k \in 1..nchildren |-> Node(m + 1 + k, "text", m + 1)] \o
        tpl.content

\* insertStyleInTemplate(template, style)
insertStyleInTemplate(h, t, style) ==
    [h EXCEPT !.templates[t].content = InsertFirst(h.templates[t], style.nchildren),
              !.templates[t].parts = ShiftParts(@, AdjustIndex(style.nchildren)),
              !.log = Append(@, Ev("insertStyle", h.call, "", t))]

----------------------------------------------------------------------------
\* The compiled shapes a call site can have. The code reads of a node only
\* whether it is a style element and how many child nodes it has, so "el"
\* stands for every node that is not a style element (an element, or a text
\* or comment node outside style elements) and "text" for the nodes inside a
\* style element, whose content is raw text. Part indices are positions of
\* nodes in non-decreasing order (several parts on one node share its index).
\* A node is a child of the content or of the node just before it.

Names == {"el", "text", "style"}

ValidParents(t, nm) ==
    IF t = <<>> THEN (IF nm = "text" THEN {} ELSE {0})
    ELSE LET last == t[Len(t)]
         IN  IF nm = "text"
             THEN (IF last.name = "style" THEN {last.id} ELSE {}) \cup
                  (IF last.name = "text" THEN {last.parent} ELSE {})
             ELSE {0} \cup (IF last.name = "el" THEN {last.id} ELSE {})

RECURSIVE Trees(_)
Trees(n) ==
    IF n = 0 THEN {<<>>}
    ELSE UNION {{Append(t, Node(n, nm, p)) : p \in ValidParents(t, nm)} :
                  t \in Trees(n - 1), nm \in Names}

AllTrees == UNION {Trees(n) : n \in 0..MaxNodes}

\* The non-decreasing sequences of at most k indices below len.
RECURSIVE PartSeqs(_, _)
PartSeqs(len, k) ==
    IF k = 0 THEN {<<>>}
    ELSE LET prev == PartSeqs(len, k - 1)
         IN  prev \cup
             UNION {{Append(ps, i) : i \in {j \in 0..(len - 1) :
                                              ps = <<>> \/ ps[Len(ps)] <= j}} :
                      ps \in {q \in prev : Len(q) = k - 1}}

Shape(c, ps) == [content |-> c, parts |-> ps]

Shapes == UNION {{Shape(t, ps) : ps \in PartSeqs(Len(t), MaxParts)} : t \in AllTrees}

\* <style>p{color:red}</style><p>${x}</p>
StyledSite == Shape(<<Node(1, "style", 0), Node(2, "text", 1),
                      Node(3, "el", 0), Node(4, "el", 3)>>, <<3>>)

\* <p>${x}</p>
PlainSite == Shape(<<Node(1, "el", 0), Node(2, "el", 1)>>, <<1>>)

\* The values of a result of call site 1: character strings, but for at most
\* one value, which is one of the special values.
Str == Scalar("string")

Specials(n) ==
    {Scalar("null"), Scalar("number"),
     Result("html", 2, <<Str>>),
     Result("html", 3, <<Str>>),
     Arr(<<Result("html", 2, <<Str>>), Result("html", 3, <<Str>>)>>),
     Result("html", 1, [i \in 1..n |-> Str])}

ValueSeqs(n) ==
    {[i \in 1..n |-> Str]} \cup
    {[i \in 1..n |-> IF i = j THEN v ELSE Str] : j \in 1..n, v \in Specials(n)}

----------------------------------------------------------------------------
\* Extraction and re-insertion applied to one result: the call site 1 has any
\* of the shapes, the call sites 2 and 3 are fixed, and the result of call
\* site 1 is extracted under scope "a" and a style element is then inserted.

HarnessInit ==
    /\ ShadyCSS = [present |-> TRUE, nativeShadow |-> TRUE, ApplyShim |-> TRUE]
    /\ needsStyleFixup = TRUE
    /\ \E sh \in Shapes :
         sites = [s \in StringsIds |->
                    IF s = 1 THEN sh ELSE IF s = 2 THEN StyledSite ELSE PlainSite]
    /\ templateCaches = EmptyMap
    /\ templates = <<>>
    /\ shadyRenderSet = {}
    /\ log = <<>>
    /\ styleTemplate = <<>>
    /\ threw = FALSE
    /\ phase = "start"
    /\ arg \in {Result("html", 1, vs) : vs \in ValueSeqs(Len(sites[1].parts))}

Extract ==
    /\ phase = "start"
    /\ \E h \in {extractStylesFromTemplate(
                     Heap(templates, templateCaches, <<>>, log, 1), "a", arg)} :
           /\ templates' = h.templates
           /\ templateCaches' = h.templateCaches
           /\ styleTemplate' = h.sink
           /\ log' = h.log
           /\ threw' = h.err
    /\ phase' = "extracted"
    /\ UNCHANGED <<ShadyCSS, needsStyleFixup, sites, shadyRenderSet, arg>>

Inject ==
    /\ phase = "extracted"
    /\ ~threw
    /\ \E k \in 0..MaxInjectChildren :
         \E f \in {shadyTemplateFactory(
                      Heap(templates, templateCaches, styleTemplate, log, 2), "a", arg)} :
         \E h \in {insertStyleInTemplate(f.h, f.t, [nchildren |-> k])} :
             /\ templates' = h.templates
             /\ templateCaches' = h.templateCaches
             /\ log' = h.log
    /\ phase' = "injected"
    /\ UNCHANGED <<ShadyCSS, needsStyleFixup, sites, shadyRenderSet, arg,
                   styleTemplate, threw>>

HarnessNext == Extract \/ Inject

SpecExtract == HarnessInit /\ [][HarnessNext]_vars

----------------------------------------------------------------------------
\* Properties of extraction and re-insertion (under SpecExtract).

\* The Template of the extracted result, and the shape it was compiled to.
HarnessT == templateCaches[CacheKey("html", "a")][1]
Post == templates[HarnessT]
Orig == sites[1]

Extracted == phase = "extracted" /\ ~threw

StylePositions(c) == {p \in 0..(Len(c) - 1) : c[p + 1].name = "style"}
StyleIds(c) == {c[p + 1].id : p \in StylePositions(c)}

\* The content with its style elements (and what they hold) removed.
Stripped(c) == RemoveIds(c, Subtree(c, StyleIds(c)))

\* The positions removed with the style element at position p.
RemovedRange(c, p) == p..(p + ChildCount(c, c[p + 1].id))

AnchorId(i) == Orig.content[Orig.parts[i] + 1].id

\* C6: after extraction every part that is not disabled has the index of
\* the position, in the content without its style elements, of the node it
\* identified before; parts before the first style element keep their index.
C6_AnchorsKept ==
    Extracted =>
        \A i \in DOMAIN Post.parts :
            /\ Post.parts[i] # -1 =>
                   PosOf(Stripped(Orig.content), AnchorId(i)) = Post.parts[i] + 1
            /\ (\A p \in StylePositions(Orig.content) : Orig.parts[i] < p) =>
                   Post.parts[i] = Orig.parts[i]

\* C7: with exactly one style element, placed before all parts, every part
\* that survives has its original index minus (1 + the style's child count).
C7_OneStyleShift ==
    (Extracted /\ Cardinality(StylePositions(Orig.content)) = 1) =>
        LET p == CHOOSE q \in StylePositions(Orig.content) : TRUE
        IN  (\A i \in DOMAIN Orig.parts : p < Orig.parts[i]) =>
                \A i \in DOMAIN Post.parts :
                    Post.parts[i] # -1 =>
                        Post.parts[i] = Orig.parts[i] -
                            (1 + ChildCount(Orig.content, Orig.content[p + 1].id))

\* C8: after extraction a part has index -1 exactly when its original index
\* lay in the removed range of some style element.
C8_DisabledIffRemoved ==
    Extracted =>
        \A i \in DOMAIN Post.parts :
            Post.parts[i] = -1 <=>
                \E p \in StylePositions(Orig.content) :
                    Orig.parts[i] \in RemovedRange(Orig.content, p)

\* Whether a value reaches a result of call site 2, the one with a style.
RECURSIVE ReachesStyled(_)
ReachesStyled(v) ==
    \/ v.tag = "result" /\ v.strings = 2
    \/ \E i \in DOMAIN v.values : ReachesStyled(v.values[i])

\* C9: a template without style element whose values reach no template with
\* one comes out of extraction with the same part indices and the same
\* nodes, and the side template stays empty.
C9_NoStyleNoChange ==
    (phase = "extracted" /\ StylePositions(Orig.content) = {} /\ ~ReachesStyled(arg)) =>
        /\ Post.parts = Orig.parts
        /\ Post.content = Orig.content
        /\ styleTemplate = <<>>

C9_Witness ==
    /\ Extracted
    /\ StylePositions(Orig.content) = {}
    /\ Len(Orig.parts) >= 2
    /\ \E i \in DOMAIN arg.values : arg.values[i].tag = "result"

\* C10: insertStyleInTemplate makes the style element the first child of the
\* content, adds 1 + its child count to every part index >= 0, leaves -1 at
\* -1 and keeps the number and order of the parts; [2, 5, 9] with a style of
\* 3 child nodes become [6, 9, 13].
C10_InjectShifts ==
    /\ ShiftParts(<<2, 5, 9>>, AdjustIndex(3)) = <<6, 9, 13>>
    /\ ShiftParts(<<-1, 2, -1>>, AdjustIndex(3)) = <<-1, 6, -1>>
    /\ [][(phase = "extracted" /\ phase' = "injected") =>
            LET before == templates[HarnessT]
                after == templates'[HarnessT]
                st == after.content[1]
                k == ChildCount(after.content, st.id)
            IN  /\ st.name = "style"
                /\ st.parent = 0
                /\ \A j \in 2..(k + 1) : after.content[j].parent = st.id
                /\ SubSeq(after.content, k + 2, Len(after.content)) = before.content
                /\ Len(after.parts) = Len(before.parts)
                /\ \A i \in DOMAIN before.parts :
                     after.parts[i] = IF before.parts[i] >= 0
                                      THEN before.parts[i] + 1 + k
                                      ELSE -1]_vars

C10_Witness ==
    /\ phase = "injected"
    /\ \E i \in DOMAIN Post.parts : Post.parts[i] = -1
    /\ \E i \in DOMAIN Post.parts : Post.parts[i] >= 2
    /\ Post.content[1].name = "style"
    /\ ChildCount(Post.content, Post.content[1].id) >= 1

----------------------------------------------------------------------------
\* Calls of the factories made by shadyTemplateFactory, with the styling
\* polyfill present or absent. arg is the sequence of the calls made: kind,
\* scope name, strings identity and the Template returned.

ShadyAbsent == [present |-> FALSE, nativeShadow |-> FALSE, ApplyShim |-> FALSE]
ShadyConfigs ==
    {ShadyAbsent} \cup
    {[present |-> TRUE, nativeShadow |-> n, ApplyShim |-> a] : n, a \in BOOLEAN}

\* needsStyleFixup without the test of the native scoping and of the shim.
NeedsStyleFixupWheneverPresent(css) == css.present

\* lines 117-118
NeedsStyleFixup(css) == css.present /\ (~css.nativeShadow \/ css.ApplyShim)

\* The call sites of the program rendered: call site 1 is
\* <style>${x}</style><p>${y}</p>, call sites 2 and 3 are as above.
Program == [s \in StringsIds |->
              IF s = 1 THEN Shape(<<Node(1, "style", 0), Node(2, "text", 1),
                                    Node(3, "el", 0), Node(4, "el", 3)>>, <<1, 3>>)
              ELSE IF s = 2 THEN StyledSite ELSE PlainSite]

FactoryInit ==
    /\ ShadyCSS \in ShadyConfigs
    /\ needsStyleFixup = NeedsStyleFixup(ShadyCSS)
    /\ sites = Program
    /\ templateCaches = EmptyMap
    /\ templates = <<>>
    /\ shadyRenderSet = {}
    /\ log = <<>>
    /\ styleTemplate = <<>>
    /\ threw = FALSE
    /\ phase = "factory"
    /\ arg = <<>>

FactoryCall ==
    /\ phase = "factory"
    /\ Len(arg) < MaxFactoryCalls
    /\ \E ty \in Types, scopeName \in Scopes, s \in StringsIds :
         \E f \in {shadyTemplateFactory(
                      Heap(templates, templateCaches, <<>>, log, Len(arg) + 1),
                      scopeName, Result(ty, s, [i \in DOMAIN sites[s].parts |-> Str]))} :
             /\ templates' = f.h.templates
             /\ templateCaches' = f.h.templateCaches
             /\ log' = f.h.log
             /\ threw' = f.h.err
             /\ arg' = Append(arg, [type |-> ty, scope |-> scopeName,
                                    strings |-> s, t |-> f.t])
    /\ UNCHANGED <<ShadyCSS, needsStyleFixup, sites, shadyRenderSet,
                   styleTemplate, phase>>

SpecFactory == FactoryInit /\ [][FactoryCall]_vars

SameTriple(a, b) == a.type = b.type /\ a.scope = b.scope /\ a.strings = b.strings

LogOf(o) == SelectSeq(log, LAMBDA e : e.op = o)

\* C4: calls with the same kind, scope name and strings identity return
\* the same Template; a template is compiled, and handed to the
\* prepare-DOM hook, only in the first call for its triple, and the hook is
\* not invoked, and nothing raised, when the polyfill is absent.
C4_SameInstance ==
    phase = "factory" =>
        /\ \A i, j \in DOMAIN arg : SameTriple(arg[i], arg[j]) => arg[i].t = arg[j].t
        /\ \A i \in DOMAIN arg :
             LET first == \A j \in 1..(i - 1) : ~SameTriple(arg[i], arg[j])
                 compiled == {k \in DOMAIN log : log[k].op = "compile" /\ log[k].call = i}
                 prepared == {k \in DOMAIN log :
                                log[k].op = "prepareTemplateDom" /\ log[k].call = i}
             IN  /\ Cardinality(compiled) = (IF first THEN 1 ELSE 0)
                 /\ Cardinality(prepared) =
                        (IF first /\ ShadyCSS.present THEN 1 ELSE 0)
                 /\ \A k \in compiled : log[k].x = arg[i].t
        /\ ~threw

C4_Witness ==
    /\ phase = "factory"
    /\ ~ShadyCSS.present
    /\ \E i, j \in DOMAIN arg : i < j /\ SameTriple(arg[i], arg[j])
    /\ \E i, j \in DOMAIN arg :
         arg[i].strings = arg[j].strings /\ arg[i].scope # arg[j].scope

----------------------------------------------------------------------------
\* The render entry point.

\* A container: an element, a document fragment without host, a shadow root.
Containers ==
    {[isFragment |-> FALSE, host |-> FALSE],
     [isFragment |-> TRUE, host |-> FALSE],
     [isFragment |-> TRUE, host |-> TRUE]}

\* hostForNode without the test of the host.
hostForNodeAnyFragment(container) == container.isFragment

\* hostForNode(node), as a truth value (lines 120-122)
hostForNode(container) == container.isFragment /\ container.host

\* The default template factory of the base engine: the cache key is the
\* result's type alone and no polyfill hook is involved.
defaultTemplateFactory(h, result) ==
    LET cacheKey == result.type
        h1 == IF cacheKey \in DOMAIN h.templateCaches
              THEN h
              ELSE [h EXCEPT !.templateCaches = Put(@, cacheKey, EmptyMap)]
        templateCache == h1.templateCaches[cacheKey]
    IN  IF result.strings \in DOMAIN templateCache
        THEN [h |-> h1, t |-> templateCache[result.strings]]
        ELSE LET t == Len(h1.templates) + 1
             IN  [h |-> [h1 EXCEPT
                          !.log = Append(@, Ev("compile", h1.call, "", t)),
                          !.templates = Append(@, NewTemplate(result)),
                          !.templateCaches[cacheKey] = Put(@, result.strings, t)],
                  t |-> t]

\* baseRender(result, container, templateFactory): the base engine obtains
\* the template of the result from the factory and does the same for every
\* TemplateResult among the values it commits (a disabled part commits none).
RECURSIVE BaseRenderResult(_, _, _, _)
RECURSIVE BaseRenderValue(_, _, _, _)
RECURSIVE BaseRenderValues(_, _, _, _, _, _)

BaseRenderResult(h, scoped, scopeName, result) ==
    LET f == IF scoped THEN shadyTemplateFactory(h, scopeName, result)
             ELSE defaultTemplateFactory(h, result)
        h1 == [f.h EXCEPT !.log = Append(@, Ev("instantiate", h.call, scopeName, f.t))]
    IN  BaseRenderValues(h1, scoped, scopeName, result.values,
                         h1.templates[f.t].parts, 1)

BaseRenderValues(h, scoped, scopeName, values, parts, i) ==
    IF i > Len(values) THEN h
    ELSE LET h1 == IF i <= Len(parts) /\ parts[i] = -1 THEN h
                   ELSE BaseRenderValue(h, scoped, scopeName, values[i])
         IN  BaseRenderValues(h1, scoped, scopeName, values, parts, i + 1)

BaseRenderValue(h, scoped, scopeName, value) ==
    IF IsTemplateResult(value) THEN BaseRenderResult(h, scoped, scopeName, value)
    ELSE IF HasIterator(value)
    THEN BaseRenderValues(h, scoped, scopeName, value.values, <<>>, 1)
    ELSE h

baseRender(h, scoped, scopeName, result) ==
    BaseRenderResult(
        [h EXCEPT !.log = Append(@, Ev("baseRender", h.call, scopeName,
                                       IF scoped THEN 1 ELSE 0))],
        scoped, scopeName, result)

\* What styleTemplate.content.querySelector('style') finds after the
\* polyfill's prepareTemplateStyles worked on the side template: the polyfill
\* leaves the side template as it is, or empties it, or leaves one style
\* element of its own making.
ProcessedStyle(k) == [name |-> "style", from |-> 0, node |-> 0, nchildren |-> k]
PolyfillOutcomes ==
    {<<"keep", 0>>, <<"none", 0>>} \cup {<<"one", k>> : k \in 0..MaxInjectChildren}
Processed(sink, out) ==
    IF out[1] = "keep" THEN sink
    ELSE IF out[1] = "none" THEN <<>>
    ELSE <<ProcessedStyle(out[2])>>

\* !shadyRenderSet.has(scopeName)
GateOpen(set, scopeName) == scopeName \notin set

\* Lines 131-143 without the extraction's outcome: the first-time work for
\* a scope after a successful extraction (h is the heap after it).
AfterExtraction(h, scopeName, result, out) ==
    LET h1 == [h EXCEPT !.log = Append(@, Ev("extractEnd", h.call, scopeName, Len(h.sink)))]
        h2 == [h1 EXCEPT
                 !.log = Append(@, Ev("prepareTemplateStyles", h.call, scopeName, Len(h.sink))),
                 !.sink = Processed(@, out)]
    IN  IF ShadyCSS.nativeShadow /\ h2.sink # <<>>
        THEN LET f == shadyTemplateFactory(h2, scopeName, result)
             IN  insertStyleInTemplate(f.h, f.t, h2.sink[1])
        ELSE h2

\* Lines 130-145: the heap and the render set after the call.
StylingPath(h, set, scopeName, result, out) ==
    LET first == GateOpen(set, scopeName)
        set1 == IF first THEN set \cup {scopeName} ELSE set
        h1 == IF first
              THEN extractStylesFromTemplate(
                       [h EXCEPT !.log = Append(@, Ev("extractStart", h.call, scopeName, 0))],
                       scopeName, result)
              ELSE h
        h2 == IF first /\ ~h1.err THEN AfterExtraction(h1, scopeName, result, out) ELSE h1
    IN  IF h2.err
        THEN [h |-> [h2 EXCEPT !.log = Append(@, Ev("throw", h.call, scopeName, 0))],
              set |-> set1]
        ELSE [h |-> baseRender(
                        [h2 EXCEPT !.log = Append(@, Ev("styleElement", h.call, scopeName, 0))],
                        TRUE, scopeName, result),
              set |-> set1]

NumCalls == Cardinality({k \in DOMAIN log : log[k].op = "render"})


\* The results the program renders.
RenderResults ==
    {Result("html", 1, <<Str, Str>>),
     Result("html", 1, <<Str, Result("html", 2, <<Str>>)>>),
     Result("html", 1, <<Str, Scalar("null")>>),
     Result("html", 3, <<Str>>),
     Result("html", 3, <<Arr(<<Result("html", 2, <<Str>>),
                              Result("html", 2, <<Result("html", 3, <<Str>>)>>)>>)>>)}

Init ==
    /\ ShadyCSS \in ShadyConfigs
    /\ needsStyleFixup = NeedsStyleFixup(ShadyCSS)
    /\ sites = Program
    /\ templateCaches = EmptyMap
    /\ templates = <<>>
    /\ shadyRenderSet = {}
    /\ log = <<>>
    /\ styleTemplate = <<>>
    /\ threw = FALSE
    /\ phase = "render"
    /\ arg = [result |-> Str, container |-> [isFragment |-> FALSE, host |-> FALSE],
              scopeName |-> ""]

\* The polyfill's outcomes that a call can tell apart: the side template is
\* read after the hook only in a call that extracts with native scoping.
OutcomesRead(container, scopeName) ==
    IF needsStyleFixup /\ hostForNode(container) /\ ShadyCSS.nativeShadow
       /\ GateOpen(shadyRenderSet, scopeName)
    THEN PolyfillOutcomes
    ELSE {<<"keep", 0>>}

\* render(result, container, scopeName), lines 124-149
Render ==
    /\ phase = "render"
    /\ NumCalls < MaxRenders
    /\ \E result \in RenderResults, container \in Containers, scopeName \in Scopes :
       \E out \in OutcomesRead(container, scopeName) :
         LET c == NumCalls + 1
             styling == needsStyleFixup /\ hostForNode(container)
             h0 == Heap(templates, templateCaches, <<>>,
                        Append(log, Ev("render", c, scopeName,
                                       IF styling THEN 1 ELSE 0)), c)
         IN  \E r \in {IF styling
                       THEN StylingPath(h0, shadyRenderSet, scopeName, result, out)
                       ELSE [h |-> baseRender(h0, FALSE, scopeName, result),
                             set |-> shadyRenderSet]} :
             /\ templates' = r.h.templates
             /\ templateCaches' = r.h.templateCaches
             /\ shadyRenderSet' = r.set
             /\ log' = r.h.log
             /\ styleTemplate' = r.h.sink
             /\ threw' = r.h.err
             /\ arg' = [result |-> result, container |-> container,
                        scopeName |-> scopeName]
    /\ UNCHANGED <<ShadyCSS, needsStyleFixup, sites, phase>>

Next == Render

Spec == Init /\ [][Next]_vars

----------------------------------------------------------------------------
\* Properties of render (under Spec).

Positions(o, c) == {k \in DOMAIN log : log[k].op = o /\ log[k].call = c}
CountFor(o, sc) == Cardinality({k \in DOMAIN log : log[k].op = o /\ log[k].scope = sc})
StylingCalls == {log[k].call : k \in {j \in DOMAIN log :
                                        log[j].op = "render" /\ log[j].x = 1}}
Hooks == {"prepareTemplateDom", "prepareTemplateStyles", "styleElement"}

\* C1: the scope-processing hook and the extraction run at most once per
\* scope name, and every call on the styling path invokes styleElement once.
C1_OncePerScope ==
    /\ \A sc \in Scopes :
         /\ CountFor("prepareTemplateStyles", sc) <= 1
         /\ CountFor("extractStart", sc) <= 1
    /\ \A c \in StylingCalls : Cardinality(Positions("styleElement", c)) = 1

\* C2: a call with the polyfill present and a container with a host invokes
\* styleElement and then the base render with the scoped factory, whatever
\* needsStyleFixup is (stated of the calls that return, so that a call ended
\* by an error of the extraction is not what refutes it).
C2_AlwaysStyled ==
    (NumCalls >= 1 /\ ShadyCSS.present /\ arg.container.isFragment
       /\ arg.container.host /\ ~threw) =>
        \E k \in Positions("styleElement", NumCalls) :
        \E j \in Positions("baseRender", NumCalls) :
            k < j /\ log[j].x = 1 /\ log[j].scope = arg.scopeName

\* C2 as amended: with the polyfill present and a container with a host, a
\* call with needsStyleFixup true invokes styleElement once and then the base
\* render with the scoped factory of scopeName, unless its extraction raised,
\* and then it invokes neither; a call with needsStyleFixup false invokes no
\* hook and delegates to the base render with the default compiler.
C2_StyledWhenFixupNeeded ==
    (NumCalls >= 1 /\ ShadyCSS.present /\ arg.container.isFragment
       /\ arg.container.host) =>
        LET c == NumCalls
            styled == Positions("styleElement", c)
            based == Positions("baseRender", c)
        IN  IF ~ShadyCSS.nativeShadow \/ ShadyCSS.ApplyShim
            THEN IF threw
                 THEN /\ styled = {} /\ based = {}
                      /\ Positions("extractStart", c) # {}
                      /\ Positions("extractEnd", c) = {}
                 ELSE /\ Cardinality(styled) = 1 /\ Cardinality(based) = 1
                      /\ \A k \in styled : \A j \in based :
                           j = k + 1 /\ log[j].x = 1 /\ log[j].scope = arg.scopeName
            ELSE /\ ~threw
                 /\ \A k \in DOMAIN log : log[k].call = c => log[k].op \notin Hooks
                 /\ Cardinality(based) = 1
                 /\ \A j \in based : log[j].x = 0

C2_Witness ==
    /\ NumCalls = 2
    /\ ShadyCSS.present /\ ShadyCSS.nativeShadow /\ ShadyCSS.ApplyShim
    /\ arg.container.isFragment /\ arg.container.host
    /\ ~threw
    /\ Positions("styleElement", 2) # {}
    /\ Positions("extractStart", 2) = {}

IsScopedKey(key) == key \notin Types

\* C3: a call without the polyfill, or with a container without host,
\* delegates to the base render with the default compiler, invokes no hook,
\* raises nothing, and leaves the render set, the caches of every scope and
\* the templates in them as they are.
C3_UnstyledPath ==
    [][(~ShadyCSS.present \/ ~(arg'.container.isFragment /\ arg'.container.host)) =>
         LET c == NumCalls + 1
             new == SubSeq(log', Len(log) + 1, Len(log'))
         IN  /\ shadyRenderSet' = shadyRenderSet
             /\ ~threw'
             /\ Len(new) >= 2
             /\ new[1] = Ev("render", c, arg'.scopeName, 0)
             /\ new[2] = Ev("baseRender", c, arg'.scopeName, 0)
             /\ \A k \in 3..Len(new) : new[k].op \in {"compile", "instantiate"}
             /\ \A key \in DOMAIN templateCaches' :
                  IsScopedKey(key) =>
                      /\ key \in DOMAIN templateCaches
                      /\ templateCaches'[key] = templateCaches[key]
             /\ \A t \in DOMAIN templates : templates'[t] = templates[t]]_vars

C3_Witness ==
    /\ NumCalls = 2
    /\ ShadyCSS.present /\ needsStyleFixup
    /\ arg.container.isFragment /\ ~arg.container.host
    /\ shadyRenderSet # {}
    /\ Positions("baseRender", 2) # {}

\* C5: for every scope name the extraction has completed before the first
\* styleElement for that scope, and within the extracting call the order is
\* extraction, scope-processing hook, re-insertion, styleElement, base render.
C5_ExtractionFirst ==
    /\ \A k \in DOMAIN log :
         log[k].op = "styleElement" =>
             \E j \in 1..(k - 1) :
                 log[j].op = "extractEnd" /\ log[j].scope = log[k].scope
    /\ \A c \in StylingCalls :
         \A a \in Positions("extractStart", c) :
             /\ \A b \in Positions("extractEnd", c) : a < b
             /\ \A b \in Positions("extractEnd", c) :
                  \A d \in Positions("prepareTemplateStyles", c) : b < d
             /\ \A d \in Positions("prepareTemplateStyles", c) :
                  \A e \in Positions("insertStyle", c) \cup Positions("styleElement", c) :
                      d < e
             /\ \A e \in Positions("insertStyle", c) :
                  \A f \in Positions("styleElement", c) : e < f
             /\ \A f \in Positions("styleElement", c) :
                  \A g \in Positions("baseRender", c) : f < g

----------------------------------------------------------------------------
\* Extraction of results with nested results and iterables. Call site 1 is
\* <style>a</style><p>${x}</p><style></style><p>${y}</p>, call site 2 has
\* its style element before its binding and call site 3 has it after its
\* bindings (<p>${x}</p><p>${y}</p><style></style>) or around the first of
\* them (<style>${x}</style><p>${y}</p>).

MaxItems == 2          \* items of an array or iterable value

StyleLastSite == Shape(<<Node(1, "el", 0), Node(2, "el", 0),
                         Node(3, "style", 0)>>, <<0, 1>>)
BoundStyleSite == Shape(<<Node(1, "style", 0), Node(2, "text", 1),
                          Node(3, "el", 0)>>, <<1, 2>>)

NestProgram(site3) ==
    [s \in StringsIds |->
       IF s = 1 THEN Shape(<<Node(1, "style", 0), Node(2, "text", 1), Node(3, "el", 0),
                             Node(4, "style", 0), Node(5, "el", 0)>>, <<2, 4>>)
       ELSE IF s = 2 THEN StyledSite
       ELSE site3]

\* Results of the call sites 2 and 3, nested once or twice.
Inner1 == {Result("html", 2, <<Str>>), Result("html", 3, <<Str, Str>>)}
Inner2 == Inner1 \cup {Result("html", 2, <<v>>) : v \in Inner1}
                 \cup {Result("html", 3, <<Str, v>>) : v \in Inner1}

RECURSIVE ItemSeqs(_)
ItemSeqs(n) ==
    IF n = 0 THEN {<<>>}
    ELSE LET prev == ItemSeqs(n - 1)
         IN  prev \cup UNION {{Append(q, v) : v \in Inner2} :
                                q \in {x \in prev : Len(x) = n - 1}}

NestValues ==
    {Str, Scalar("number")} \cup Inner2 \cup
    {Arr(q) : q \in ItemSeqs(MaxItems)} \cup {Iter(q) : q \in ItemSeqs(MaxItems)}

NestResults ==
    {Result("html", 1, <<v, w>>) : v \in NestValues, w \in {Str} \cup Inner2}

NestInit ==
    /\ ShadyCSS = [present |-> TRUE, nativeShadow |-> TRUE, ApplyShim |-> TRUE]
    /\ needsStyleFixup = TRUE
    /\ sites \in {NestProgram(StyleLastSite), NestProgram(BoundStyleSite)}
    /\ templateCaches = EmptyMap
    /\ templates = <<>>
    /\ shadyRenderSet = {}
    /\ log = <<>>
    /\ styleTemplate = <<>>
    /\ threw = FALSE
    /\ phase = "nest"
    /\ arg \in NestResults

ExtractNested ==
    /\ phase = "nest"
    /\ \E h \in {extractStylesFromTemplate(
                     Heap(templates, templateCaches, <<>>, log, 1), "a", arg)} :
           /\ templates' = h.templates
           /\ templateCaches' = h.templateCaches
           /\ styleTemplate' = h.sink
           /\ log' = h.log
           /\ threw' = h.err
    /\ phase' = "nested"
    /\ UNCHANGED <<ShadyCSS, needsStyleFixup, sites, shadyRenderSet, arg>>

SpecNest == NestInit /\ [][ExtractNested]_vars

\* The style elements met when a value is traversed in full: the nodes of a
\* result's call site in document order, the traversal of each binding's
\* value at the binding's node, the items of an iterable in their order.
RECURSIVE TraversalOrder(_)
RECURSIVE TraverseNodes(_, _)
RECURSIVE TraverseSeq(_)
TraversalOrder(v) ==
    IF v.tag = "result" THEN TraverseNodes(v, 0)
    ELSE IF v.tag \in {"array", "iterable"} THEN TraverseSeq(v.values)
    ELSE <<>>
TraverseSeq(items) ==
    IF items = <<>> THEN <<>>
    ELSE TraversalOrder(Head(items)) \o TraverseSeq(Tail(items))
TraverseNodes(r, p) ==
    LET site == sites[r.strings]
        here == SelectSeq([i \in DOMAIN site.parts |->
                             IF site.parts[i] = p THEN r.values[i] ELSE Str],
                          LAMBDA x : x # Str)
    IN  IF p >= Len(site.content) THEN <<>>
        ELSE (IF site.content[p + 1].name = "style"
              THEN <<[strings |-> r.strings, node |-> site.content[p + 1].id]>>
              ELSE <<>>)
             \o TraverseSeq(here) \o TraverseNodes(r, p + 1)

\* The side template's children, each named by its call site and node.
SinkKeys ==
    [k \in DOMAIN styleTemplate |->
       [strings |-> templates[styleTemplate[k].from].strings,
        node |-> styleTemplate[k].node]]

RECURSIVE IsSubseq(_, _)
IsSubseq(a, b) ==
    IF a = <<>> THEN TRUE
    ELSE IF b = <<>> THEN FALSE
    ELSE IF Head(a) = Head(b) THEN IsSubseq(Tail(a), Tail(b))
    ELSE IsSubseq(a, Tail(b))

\* C11: the side template receives the style elements in traversal order:
\* its children are, in their order, among the style elements met by the
\* full traversal of the result (outer styles before a binding, then the
\* styles of the binding's value, items in their order, then later styles).
C11_TraversalOrder ==
    (phase = "nested" /\ ~threw) => IsSubseq(SinkKeys, TraversalOrder(arg))

C11_Witness ==
    /\ phase = "nested" /\ ~threw
    /\ sites[3] = StyleLastSite
    /\ arg.values[1].tag = "array"
    /\ Len(arg.values[1].values) = 2
    /\ arg.values[1].values[1].strings = 3
    /\ arg.values[1].values[2].strings = 2
    /\ SinkKeys = <<[strings |-> 1, node |-> 1], [strings |-> 3, node |-> 3],
                    [strings |-> 2, node |-> 1], [strings |-> 1, node |-> 4]>>

----------------------------------------------------------------------------
\* Properties of the values' processing (C12 under SpecExtract, C14 under
\* SpecNest).

ScalarTags == {"string", "number", "boolean", "null", "undefined"}

\* C12: a value that is neither a TemplateResult nor a sequence is ignored:
\* processing it raises nothing and leaves the side template, the templates
\* and their parts as they are; so an extraction of a result whose values
\* are all such values raises nothing and collects its own styles only.
C12_ScalarsIgnored ==
    /\ (phase = "extracted" /\ \A i \in DOMAIN arg.values :
                                   arg.values[i].tag \in ScalarTags) =>
           /\ ~threw
           /\ \A k \in DOMAIN styleTemplate : styleTemplate[k].from = HarnessT
    /\ phase = "extracted" =>
           \A tg \in ScalarTags :
               LET h == Heap(templates, templateCaches, styleTemplate, log, 1)
               IN  extractStylesFromValue(h, "a", Scalar(tg)) = h

\* The results reachable from a value through the values of results and
\* the items of sequences.
RECURSIVE ReachableResults(_)
ReachableResults(v) ==
    (IF v.tag = "result" THEN {v} ELSE {}) \cup
    UNION {ReachableResults(v.values[i]) : i \in DOMAIN v.values}

\* Whether the template of result r under scope "a" exists, holds no style
\* element and has each style element of its call site cloned in the side
\* template.
StylesExtracted(r) ==
    LET key == CacheKey(r.type, "a")
    IN  /\ key \in DOMAIN templateCaches
        /\ r.strings \in DOMAIN templateCaches[key]
        /\ LET t == templateCaches[key][r.strings]
           IN  /\ StylePositions(templates[t].content) = {}
               /\ \A id \in StyleIds(sites[r.strings].content) :
                    \E k \in DOMAIN styleTemplate :
                        styleTemplate[k].from = t /\ styleTemplate[k].node = id

\* C14: after an extraction that completed, every style element of the
\* result's template and of every template reachable from it through its
\* values has been cloned into the side template and removed from its tree.
C14_AllStylesExtracted ==
    (phase = "nested" /\ ~threw) => \A r \in ReachableResults(arg) : StylesExtracted(r)

\* C15: after the extraction and the re-insertion of one style element in
\* the result's template, every part that is not disabled has the index of
\* the node it identified before the extraction, and the template holds
\* exactly the one style element inserted, as its first node.
C15_AnchorsAfterReinjection ==
    phase = "injected" =>
        /\ StylePositions(Post.content) = {0}
        /\ \A i \in DOMAIN Post.parts :
             Post.parts[i] # -1 =>
                 PosOf(Post.content, AnchorId(i)) = Post.parts[i] + 1

\* Whether the result extracted has a value that is a result of its own
\* call site, so that its template is reached again during its traversal.
SelfNested ==
    \E i \in DOMAIN arg.values :
        arg.values[i].tag = "result" /\ arg.values[i].strings = arg.strings

\* C17: when the template is reached again while its traversal is in
\* progress, the extraction raises nothing, the side template holds exactly
\* one clone of each of its style elements, no style element is left in its
\* tree, and each part is unchanged, disabled, or shifted once to the
\* position of its anchor.
C17_ReentrantOnce ==
    (phase = "extracted" /\ SelfNested) =>
        /\ ~threw
        /\ \A id \in StyleIds(Orig.content) :
             Cardinality({k \in DOMAIN styleTemplate :
                            styleTemplate[k].from = HarnessT
                            /\ styleTemplate[k].node = id}) = 1
        /\ StylePositions(Post.content) = {}
        /\ \A i \in DOMAIN Post.parts :
             \/ Post.parts[i] \in {-1, Orig.parts[i]}
             \/ PosOf(Stripped(Orig.content), AnchorId(i)) = Post.parts[i] + 1

----------------------------------------------------------------------------
\* Sequences of extractions and re-insertions on the template of one result:
\* call site 1 has any of the shapes, and the result of call site 1 is
\* extracted, or a style element is inserted in its template, in any order.
\* The values of the result are character strings, but for at most one,
\* which is a result of call site 2 or of call site 1 itself.

MaxOps == 3            \* operations in one behaviour

NumOps == Cardinality({k \in DOMAIN log : log[k].op \in {"extractStyles", "insertStyle"}})

OpsValueSeqs(n) ==
    {[i \in 1..n |-> Str]} \cup
    {[i \in 1..n |-> IF i = j THEN v ELSE Str] :
       j \in 1..n, v \in {Result("html", 2, <<Str>>),
                          Result("html", 1, [i \in 1..n |-> Str])}}

OpsInit ==
    /\ ShadyCSS = [present |-> TRUE, nativeShadow |-> TRUE, ApplyShim |-> TRUE]
    /\ needsStyleFixup = TRUE
    /\ \E sh \in Shapes :
         sites = [s \in StringsIds |->
                    IF s = 1 THEN sh ELSE IF s = 2 THEN StyledSite ELSE PlainSite]
    /\ templateCaches = EmptyMap
    /\ templates = <<>>
    /\ shadyRenderSet = {}
    /\ log = <<>>
    /\ styleTemplate = <<>>
    /\ threw = FALSE
    /\ phase = "ops"
    /\ arg \in {Result("html", 1, vs) : vs \in OpsValueSeqs(Len(sites[1].parts))}

ExtractOp ==
    /\ phase = "ops"
    /\ NumOps < MaxOps
    /\ \E h \in {extractStylesFromTemplate(
                     Heap(templates, templateCaches, <<>>,
                          Append(log, Ev("extractStyles", NumOps + 1, "a", 0)),
                          NumOps + 1),
                     "a", arg)} :
           /\ templates' = h.templates
           /\ templateCaches' = h.templateCaches
           /\ styleTemplate' = h.sink
           /\ log' = h.log
           /\ threw' = h.err
    /\ UNCHANGED <<ShadyCSS, needsStyleFixup, sites, shadyRenderSet, arg, phase>>

InjectOp ==
    /\ phase = "ops"
    /\ NumOps < MaxOps
    /\ \E k \in {MaxInjectChildren} :
         \E f \in {shadyTemplateFactory(
                      Heap(templates, templateCaches, styleTemplate, log, NumOps + 1),
                      "a", arg)} :
         \E h \in {insertStyleInTemplate(f.h, f.t, [nchildren |-> k])} :
             /\ templates' = h.templates
             /\ templateCaches' = h.templateCaches
             /\ log' = h.log
    /\ threw' = FALSE
    /\ UNCHANGED <<ShadyCSS, needsStyleFixup, sites, shadyRenderSet, arg,
                   styleTemplate, phase>>

OpsNext == ExtractOp \/ InjectOp

SpecOps == OpsInit /\ [][OpsNext]_vars

\* C16: after any sequence of extractions and re-insertions every template
\* has the parts it was compiled with, in their order, and the indices of
\* its parts that are not disabled are >= 0 and non-decreasing in that order.
C16_PartsOrdered ==
    \A t \in DOMAIN templates :
        LET ps == templates[t].parts
        IN  /\ Len(ps) = Len(sites[templates[t].strings].parts)
            /\ \A i \in DOMAIN ps : ps[i] = -1 \/ ps[i] >= 0
            /\ \A i, j \in DOMAIN ps :
                 (i < j /\ ps[i] # -1 /\ ps[j] # -1) => ps[i] <= ps[j]

C16_Witness ==
    /\ phase = "ops"
    /\ NumOps = 3
    /\ log[Len(log)].op = "extractStyles"
    /\ \E k \in DOMAIN log : log[k].op = "insertStyle"
    /\ \E i, j \in DOMAIN Post.parts :
         i < j /\ Post.parts[i] >= 0 /\ Post.parts[i] < Post.parts[j]
                /\ Post.parts[i] # Orig.parts[i]

----------------------------------------------------------------------------
\* Further properties of render (under Spec).

\* C13: between render calls every scope name in the render set has had
\* its extraction and its scope-processing hook completed (a call whose
\* extraction raises leaves the scope unmarked), and no scope name ever
\* leaves the set.
C13_MarkedWhenComplete ==
    /\ [](\A sc \in shadyRenderSet :
             /\ CountFor("extractEnd", sc) = 1
             /\ CountFor("prepareTemplateStyles", sc) = 1)
    /\ [][shadyRenderSet \subseteq shadyRenderSet']_vars

\* The scope names whose extracting render call has completed.
CompletedScopes ==
    {sc \in Scopes :
       \E k \in DOMAIN log :
           /\ log[k].op = "styleElement" /\ log[k].scope = sc
           /\ Positions("extractEnd", log[k].call) # {}}

\* The Templates cached under a scope name.
CachedUnder(sc) ==
    UNION {{templateCaches[CacheKey(ty, sc)][st] :
              st \in DOMAIN templateCaches[CacheKey(ty, sc)]} :
             ty \in {x \in Types : CacheKey(x, sc) \in DOMAIN templateCaches}}

\* C18: once the extracting call of a scope has completed, no render call
\* changes the tree or a part index of a Template cached under that scope;
\* and the Templates cached under different keys (different scope names, or
\* the default compiler's key) or different strings are distinct instances.
C18_ScopedTemplatesFrozen ==
    /\ [](\A k1, k2 \in DOMAIN templateCaches :
            \A s1 \in DOMAIN templateCaches[k1], s2 \in DOMAIN templateCaches[k2] :
                (k1 # k2 \/ s1 # s2) => templateCaches[k1][s1] # templateCaches[k2][s2])
    /\ [][\A sc \in CompletedScopes :
            \A t \in CachedUnder(sc) :
                /\ templates'[t].content = templates[t].content
                /\ templates'[t].parts = templates[t].parts]_vars

C18_Witness ==
    /\ NumCalls = 2
    /\ ~threw
    /\ CompletedScopes = {"a", "b"}
    /\ arg.scopeName = "b"
    /\ Positions("extractStart", 2) # {}
    /\ Positions("insertStyle", 1) # {}
    /\ \E st \in DOMAIN templateCaches[CacheKey("html", "a")] :
         /\ st \in DOMAIN templateCaches[CacheKey("html", "b")]
         /\ StylePositions(sites[st].content) # {}

============================================================================
